---- MODULE Spec2Model ----
(***************************************************************************)
(* Model of Code/Protein_Network_Analyzer.py: the ProteinNetworkAnalyzer   *)
(* class (blacklist test, node selection, all-shortest-paths analysis and  *)
(* frequency aggregation) and the part of main() that constructs it.       *)
(*                                                                         *)
(* Node names and blacklist entries are Python strings; they are modelled  *)
(* as tuples of one-character strings so that upper(), strip() and split() *)
(* are computed character by character.  Frequencies are Python floats     *)
(* obtained by one division count / num_paths; they are modelled as exact  *)
(* reduced fractions <<numerator, denominator>>.                           *)
(***************************************************************************)
EXTENDS Integers, Sequences, FiniteSets, TLC

VARIABLES
    disable_blacklist,       \* main(): args.disable_blacklist
    graph,                   \* self.graph (after _relabel_nodes)
    blacklist,               \* self.blacklist
    node_types,              \* self.node_types
    proteins,                \* self.proteins (a list)
    undirected_graph,        \* self.undirected_graph (adjacency)
    shortest_paths,          \* self.shortest_paths (a list of records)
    pair_frequencies,        \* self.pair_frequencies
    normalized_frequencies,  \* self.normalized_frequencies
    analyzed_nodes,          \* self.analyzed_nodes
    pc,                      \* position inside analyze_paths
    pairs,                   \* analyze_paths: the pairs still to iterate
    paths,                   \* analyze_paths: local `paths` of the last iteration
    total_paths_found,       \* analyze_paths: local counter
    result,                  \* outcome of the last analyze_paths call
    runs,                    \* number of analyze_paths calls made so far
    call_args,               \* arguments of the last direct method call
    call_result,             \* outcome of the last direct method call
    cpc,                     \* position inside calculate_centrality
    normalized_centrality,   \* calculate_centrality: local map of the fallback
    futures,                 \* calculate_centrality: component -> state of its task
    centrality,              \* outcome of the last calculate_centrality call
    caller,                  \* what a caller of calculate_centrality keeps
    visualizer               \* test_graphs.py: the GraphVisualizer being built

analyzer_vars == <<disable_blacklist, graph, blacklist, node_types, proteins,
                   undirected_graph>>
analysis_vars == <<shortest_paths, pair_frequencies, normalized_frequencies,
                   analyzed_nodes>>
local_vars == <<pc, pairs, paths, total_paths_found, result, runs>>
call_vars == <<call_args, call_result>>
centrality_vars == <<cpc, normalized_centrality, futures, centrality, caller>>
vars == <<disable_blacklist, graph, blacklist, node_types, proteins,
          undirected_graph, shortest_paths, pair_frequencies,
          normalized_frequencies, analyzed_nodes, pc, pairs, paths,
          total_paths_found, result, runs, call_args, call_result,
          cpc, normalized_centrality, futures, centrality, caller,
          visualizer>>

-----------------------------------------------------------------------------
(* Bounds *)

\* number of analyze_paths calls made on one analyzer
MaxRuns == 2
\* number of analyze_paths calls made before the centrality is computed
MaxWideRuns == 1
\* number of calculate_centrality calls of a caller that compares them
MaxCalls == 2
\* length of an explicit node_list
MaxListLen == 2
\* length of a name handed to _is_blacklisted by a direct call
MaxNameLen == 5

-----------------------------------------------------------------------------
(* Python strings *)

\* set(list)
ToSet(seq) == {seq[i] : i \in DOMAIN seq}

LowerLetters == <<"a","b","c","d","e","f","g","h","i","j","k","l","m",
                  "n","o","p","q","r","s","t","u","v","w","x","y","z">>
UpperLetters == <<"A","B","C","D","E","F","G","H","I","J","K","L","M",
                  "N","O","P","Q","R","S","T","U","V","W","X","Y","Z">>

\* the upper-case letter of every lower-case letter
UpperOf == [c \in ToSet(LowerLetters) |->
              UpperLetters[CHOOSE i \in DOMAIN LowerLetters : LowerLetters[i] = c]]

\* str.upper() on one character
UpperChar(c) == IF c \in DOMAIN UpperOf THEN UpperOf[c] ELSE c

\* str.upper()
RECURSIVE upper(_)
upper(s) == IF s = <<>> THEN <<>> ELSE <<UpperChar(Head(s))>> \o upper(Tail(s))

IsSpace(c) == c = " "

\* str.strip(): drop leading and trailing whitespace
RECURSIVE lstrip(_)
lstrip(s) ==
    IF s # <<>> /\ IsSpace(Head(s)) THEN lstrip(Tail(s)) ELSE s

RECURSIVE rstrip(_)
rstrip(s) ==
    IF s # <<>> /\ IsSpace(s[Len(s)]) THEN rstrip(SubSeq(s, 1, Len(s) - 1)) ELSE s

strip(s) == rstrip(lstrip(s))

\* str.split() without separator: scan left to right, cut at runs of
\* whitespace, never yield an empty token.  cur is the token being read.
RECURSIVE SplitScan(_, _, _)
SplitScan(s, cur, acc) ==
    IF s = <<>>
    THEN IF cur = <<>> THEN acc ELSE Append(acc, cur)
    ELSE IF IsSpace(Head(s))
         THEN SplitScan(Tail(s), <<>>, IF cur = <<>> THEN acc ELSE Append(acc, cur))
         ELSE SplitScan(Tail(s), Append(cur, Head(s)), acc)

split(s) == SplitScan(s, <<>>, <<>>)

-----------------------------------------------------------------------------
(* The blacklist *)

DEFAULT_BLACKLIST ==
    { <<"A","T","P">>, <<"A","D","P">>,
      <<"N","A","D","H">>, <<"N","A","D","+">>,
      <<"N","A","D","P","H">>, <<"N","A","D","P","+">>,
      <<"F","A","D","H","2">>, <<"F","A","D">>,
      <<"P","y","r","u","v","a","t","e">>, <<"P","i">>,
      <<"P","h","o","s","p","h","a","t","e">>,
      <<"P","P","i">>,
      <<"P","y","r","o","p","h","o","s","p","h","a","t","e">>,
      <<"H","+">>, <<"P","r","o","t","o","n">>,
      <<"C","O","2">>, <<"H","2","O">>, <<"O","2">> }

\* Python's None for an optional set argument: [none |-> TRUE]
NoneSet == [none |-> TRUE, v |-> {}]
SomeSet(S) == [none |-> FALSE, v |-> S]

\* main(): custom_blacklist=set() if args.disable_blacklist else None
MainCustomBlacklist(disable) == IF disable THEN SomeSet({}) ELSE NoneSet

\* `custom_blacklist or set()`: None and the empty set are both falsy
OrEmptySet(opt) == IF opt.none \/ opt.v = {} THEN {} ELSE opt.v

\* __init__: self.blacklist = self.DEFAULT_BLACKLIST.union(custom_blacklist or set())
InitBlacklist(custom_blacklist) == DEFAULT_BLACKLIST \cup OrEmptySet(custom_blacklist)

\* the sets a caller passes as custom_blacklist
CustomBlacklists ==
    { {}, {<<"A"," ","T">>}, {<<" ">>, <<"t"," "," ","a">>} }

\* every entry a blacklist of the model can hold
BlacklistEntries == DEFAULT_BLACKLIST \cup UNION CustomBlacklists

\* item.upper().strip() for every entry (a table of the two string methods)
EntryNormalized == [item \in BlacklistEntries |-> strip(upper(item))]

\* set(blacklisted.upper().strip().split()) for every entry
EntryWords == [item \in BlacklistEntries |-> ToSet(split(EntryNormalized[item]))]

\* s holds t as a run of consecutive characters (`t in s`)
Contains(s, t) ==
    \E i \in 1..(Len(s) - Len(t) + 1) : SubSeq(s, i, i + Len(t) - 1) = t

\* a blacklist test by literal substring instead of whole tokens
IsBlacklistedBySubstring(bl, node_name) ==
    LET name == strip(upper(node_name))
    IN  \/ \E item \in bl : name = EntryNormalized[item]
        \/ \E blacklisted \in bl :
              EntryNormalized[blacklisted] # <<>>
              /\ Contains(name, EntryNormalized[blacklisted])

\* _is_blacklisted, evaluated against blacklist bl
IsBlacklistedIn(bl, node_name) ==
    LET name == strip(upper(node_name))
        node_words == ToSet(split(name))
    IN  \/ \E item \in bl : name = EntryNormalized[item]
        \/ \E blacklisted \in bl :
              LET blacklisted_words == EntryWords[blacklisted]
              IN  blacklisted_words # {} /\ blacklisted_words \subseteq node_words

\* a check that also rejects the nodes of the loaded graph that are no
\* proteins
_is_blacklisted_or_other_type(node_name) ==
    \/ IsBlacklistedIn(blacklist, node_name)
    \/ node_name \in DOMAIN node_types /\ node_types[node_name] # "Protein"

_is_blacklisted(node_name) == IsBlacklistedIn(blacklist, node_name)

-----------------------------------------------------------------------------
(* Graphs read by __init__ *)

A == <<"A">>
B == <<"B">>
C == <<"C">>
M == <<"M">>
ATP == <<"A","T","P">>
\* a compound name holding the token ATP, in lower case
ATP_B == <<"a","t","p"," ","B">>
\* a name no graph below contains
Z == <<"Z">>
D == <<"D">>

\* nodes: graph.nodes in iteration order; edges: the edges as read (directed);
\* biopaxType: the node attribute, absent for some nodes.
GraphLine ==
    [nodes |-> <<A, B, C>>,
     edges |-> {<<A, B>>, <<C, B>>},
     biopaxType |-> (A :> "Protein") @@ (B :> "Protein") @@ (C :> "Protein")]

GraphFan ==
    [nodes |-> <<A, B, C, M, ATP>>,
     edges |-> {<<A, M>>, <<M, B>>, <<A, ATP>>, <<ATP, B>>, <<A, C>>, <<C, B>>},
     biopaxType |-> (A :> "Protein") @@ (B :> "Protein") @@ (C :> "Protein")
                    @@ (M :> "SmallMolecule") @@ (ATP :> "SmallMolecule")]

GraphSplit ==
    [nodes |-> <<A, M, B, C, ATP>>,
     edges |-> {<<A, M>>, <<B, M>>, <<C, ATP>>},
     biopaxType |-> (A :> "Protein") @@ (B :> "Protein") @@ (C :> "Protein")
                    @@ (ATP :> "Protein")]

GraphMetabolites ==
    [nodes |-> <<ATP, ATP_B>>,
     edges |-> {<<ATP, ATP_B>>},
     biopaxType |-> (ATP :> "Protein") @@ (ATP_B :> "Protein")]

Graphs == {GraphLine, GraphFan, GraphSplit, GraphMetabolites}

\* the triangle A-B-C next to the isolated protein D
GraphTriangle ==
    [nodes |-> <<A, B, C, D>>,
     edges |-> {<<A, B>>, <<B, C>>, <<A, C>>},
     biopaxType |-> (A :> "Protein") @@ (B :> "Protein") @@ (C :> "Protein")
                    @@ (D :> "Protein")]

\* the chain A-M-B through a small molecule, apart from the edge C-D
GraphTwoParts ==
    [nodes |-> <<A, M, B, C, D>>,
     edges |-> {<<A, M>>, <<M, B>>, <<C, D>>},
     biopaxType |-> (A :> "Protein") @@ (B :> "Protein") @@ (C :> "Protein")
                    @@ (D :> "Protein") @@ (M :> "SmallMolecule")]

WideGraphs == {GraphTriangle, GraphTwoParts}

\* names a caller may put in an explicit node_list
ListNames == {A, M, ATP, Z}

NodeSet(g) == ToSet(g.nodes)

\* _initialize_network: self.node_types[node] = ....get('biopaxType', 'Unknown')
InitNodeTypes(g) ==
    [n \in NodeSet(g) |->
        IF n \in DOMAIN g.biopaxType THEN g.biopaxType[n] ELSE "Unknown"]

\* list comprehension `[x for x in seq if keep(x)]`
RECURSIVE FilterSeq(_, _)
FilterSeq(seq, keep) ==
    IF seq = <<>> THEN <<>>
    ELSE (IF Head(seq) \in keep THEN <<Head(seq)>> ELSE <<>>)
         \o FilterSeq(Tail(seq), keep)

\* _initialize_network: self.proteins
InitProteins(g, bl) ==
    FilterSeq(g.nodes, {n \in NodeSet(g) :
        InitNodeTypes(g)[n] = "Protein" /\ ~IsBlacklistedIn(bl, n)})

\* Graph.to_undirected(): adjacency of the undirected view
to_undirected(g) ==
    [n \in NodeSet(g) |->
        {m \in NodeSet(g) : <<n, m>> \in g.edges \/ <<m, n>> \in g.edges}]

-----------------------------------------------------------------------------
(* select_nodes *)

\* an optional argument: Python's None, or a value
None == [none |-> TRUE, v |-> <<>>]
Some(x) == [none |-> FALSE, v |-> x]

NoError == [kind |-> "", missing |-> <<>>, blacklisted |-> <<>>,
            suggests_disable_blacklist |-> FALSE]

\* raise ValueError(...); the record keeps what the message text contains
Raise(kind, missing, blacklisted, suggests) ==
    [raised |-> TRUE,
     error |-> [kind |-> kind, missing |-> missing, blacklisted |-> blacklisted,
                suggests_disable_blacklist |-> suggests],
     value |-> <<>>]

Return(v) == [raised |-> FALSE, error |-> NoError, value |-> v]

\* a sample drawn with replacement (random.choices)
random_choices(population, k) ==
    IF k < 0 \/ k > Len(population)
    THEN {Raise("sample", <<>>, <<>>, FALSE)}
    ELSE {Return([i \in 1..k |-> population[pos[i]]]) :
            pos \in [1..k -> DOMAIN population]}

\* random.sample(population, k): k elements at pairwise distinct positions,
\* in any order; raises ValueError when k < 0 or k > len(population)
random_sample(population, k) ==
    IF k < 0 \/ k > Len(population)
    THEN {Raise("sample", <<>>, <<>>, FALSE)}
    ELSE {Return([i \in 1..k |-> population[pos[i]]]) :
            pos \in {f \in [1..k -> DOMAIN population] :
                        \A i, j \in 1..k : i # j => f[i] # f[j]}}

\* the three lists built by the loop over node_list
missing_nodes(node_list) ==
    FilterSeq(node_list, {n \in ToSet(node_list) : n \notin NodeSet(graph)})

blacklisted_nodes(node_list) ==
    FilterSeq(node_list, {n \in ToSet(node_list) :
        n \in NodeSet(graph) /\ _is_blacklisted(n)})

valid_nodes(node_list) ==
    FilterSeq(node_list, {n \in ToSet(node_list) :
        n \in NodeSet(graph) /\ ~_is_blacklisted(n)})

\* select_nodes that stops at the first kind of offender it meets
select_nodes_fail_fast(num_nodes, node_list) ==
    IF num_nodes.none /\ node_list.none
    THEN {Raise("neither", <<>>, <<>>, FALSE)}
    ELSE IF ~num_nodes.none
    THEN IF proteins = <<>>
         THEN {Raise("empty_pool", <<>>, <<>>, TRUE)}
         ELSE IF num_nodes.v > Len(proteins)
         THEN {Raise("too_many", <<>>, <<>>, FALSE)}
         ELSE random_sample(proteins, num_nodes.v)
    ELSE IF missing_nodes(node_list.v) # <<>>
         THEN {Raise("invalid_nodes", missing_nodes(node_list.v), <<>>, FALSE)}
         ELSE IF blacklisted_nodes(node_list.v) # <<>>
         THEN {Raise("invalid_nodes", <<>>, blacklisted_nodes(node_list.v), TRUE)}
         ELSE IF valid_nodes(node_list.v) = <<>>
         THEN {Raise("no_valid", <<>>, <<>>, FALSE)}
         ELSE {Return(valid_nodes(node_list.v))}

\* select_nodes that clamps the requested count to the pool size
select_nodes_clamped(num_nodes, node_list) ==
    IF num_nodes.none /\ node_list.none
    THEN {Raise("neither", <<>>, <<>>, FALSE)}
    ELSE IF ~num_nodes.none
    THEN random_sample(proteins,
            IF num_nodes.v > Len(proteins) THEN Len(proteins) ELSE num_nodes.v)
    ELSE IF missing_nodes(node_list.v) # <<>> \/ blacklisted_nodes(node_list.v) # <<>>
         THEN {Raise("invalid_nodes", missing_nodes(node_list.v),
                     blacklisted_nodes(node_list.v),
                     blacklisted_nodes(node_list.v) # <<>>)}
         ELSE IF valid_nodes(node_list.v) = <<>>
         THEN {Raise("no_valid", <<>>, <<>>, FALSE)}
         ELSE {Return(valid_nodes(node_list.v))}

\* select_nodes(num_nodes, node_list): the set of its possible outcomes
select_nodes(num_nodes, node_list) ==
    IF num_nodes.none /\ node_list.none
    THEN {Raise("neither", <<>>, <<>>, FALSE)}
    ELSE IF ~num_nodes.none
    THEN IF proteins = <<>>
         THEN {Raise("empty_pool", <<>>, <<>>, TRUE)}
         ELSE IF num_nodes.v > Len(proteins)
         THEN {Raise("too_many", <<>>, <<>>, FALSE)}
         ELSE random_sample(proteins, num_nodes.v)
    ELSE IF missing_nodes(node_list.v) # <<>> \/ blacklisted_nodes(node_list.v) # <<>>
         THEN {Raise("invalid_nodes", missing_nodes(node_list.v),
                     blacklisted_nodes(node_list.v),
                     blacklisted_nodes(node_list.v) # <<>>)}
         ELSE IF valid_nodes(node_list.v) = <<>>
         THEN {Raise("no_valid", <<>>, <<>>, FALSE)}
         ELSE {Return(valid_nodes(node_list.v))}

\* sequences over S of length 0..n
SeqsUpTo(S, n) == UNION {[1..k -> S] : k \in 0..n}

\* the argument pairs (num_nodes, node_list) a caller passes
SelectionArgs ==
    {<<None, None>>}
    \cup {<<Some(n), None>> : n \in (0 - 1)..(Len(proteins) + 1)}
    \cup {<<None, Some(l)>> : l \in SeqsUpTo(ListNames, MaxListLen)}
    \cup {<<Some(n), Some(<<Z>>)>> : n \in 0..1}

-----------------------------------------------------------------------------
(* find_all_shortest_paths *)

\* nx.predecessor(G, source): breadth-first search from source; maps every
\* reached node to its neighbours one level closer to source
RECURSIVE predecessor(_, _, _, _)
predecessor(adj, frontier, seen, pred) ==
    LET next == {v \in UNION {adj[u] : u \in frontier} : v \notin seen}
    IN  IF next = {} THEN pred
        ELSE predecessor(adj, next, seen \cup next,
                [v \in DOMAIN pred \cup next |->
                    IF v \in next THEN {u \in frontier : v \in adj[u]}
                    ELSE pred[v]])

\* _build_paths_from_predecessors: the paths that end in v
RECURSIVE build_paths(_, _)
build_paths(pred, v) ==
    IF pred[v] = {} THEN {<<v>>}
    ELSE UNION {{Append(p, v) : p \in build_paths(pred, u)} : u \in pred[v]}

\* list(generator): the paths in the order they are produced
RECURSIVE ListOf(_)
ListOf(S) ==
    IF S = {} THEN <<>>
    ELSE LET x == CHOOSE y \in S : TRUE IN <<x>> \o ListOf(S \ {x})

\* an optional list result
NoneList == [none |-> TRUE, list |-> <<>>]
SomeList(l) == [none |-> FALSE, list |-> l]

\* a guard that lets every search result through
TruthyAlways(r) == TRUE

\* `if paths:` - None and the empty list are falsy
Truthy(r) == ~r.none /\ r.list # <<>>

\* a search that keeps one shortest path only (nx.shortest_path)
find_one_shortest_path(start, end) ==
    LET pred == predecessor(undirected_graph, {start}, {start}, (start :> {}))
    IN  IF end \notin DOMAIN pred
        THEN NoneList
        ELSE SomeList(<<CHOOSE p \in build_paths(pred, end) : TRUE>>)

\* find_all_shortest_paths(start, end); start and end are nodes of the graph
find_all_shortest_paths(start, end) ==
    LET pred == predecessor(undirected_graph, {start}, {start}, (start :> {}))
    IN  IF end \notin DOMAIN pred
        THEN NoneList     \* NetworkXNoPath is caught, None is returned
        ELSE SomeList(ListOf(build_paths(pred, end)))

-----------------------------------------------------------------------------
(* Frequencies *)

RECURSIVE GCD(_, _)
GCD(a, b) == IF b = 0 THEN a ELSE GCD(b, a % b)

\* the float n / d, kept exact
Frac(n, d) == LET g == GCD(n, d) IN <<n \div g, d \div g>>

\* float addition
AddFrac(x, y) == Frac(x[1] * y[2] + y[1] * x[2], x[2] * y[2])

\* number of positions of path that hold node
Occurrences(path, node) == Cardinality({i \in DOMAIN path : path[i] = node})

RECURSIVE SumSeq(_)
SumSeq(ns) == IF ns = <<>> THEN 0 ELSE Head(ns) + SumSeq(Tail(ns))

\* pair_freq[node_type][node] after the double loop over paths and nodes
RawCount(path_list, node) ==
    SumSeq([i \in DOMAIN path_list |-> Occurrences(path_list[i], node)])

\* frequencies divided by the length of the paths instead of their number
NormalizedPairFreqByLength(path_list) ==
    LET path_len == Len(path_list[1])
        touched == UNION {ToSet(path_list[i]) : i \in DOMAIN path_list}
        types == {node_types[n] : n \in touched}
    IN  [t \in types |->
            [n \in {m \in touched : node_types[m] = t} |->
                Frac(RawCount(path_list, n), path_len)]]

\* normalized_pair_freq: node_type -> node -> freq / num_paths
NormalizedPairFreq(path_list) ==
    LET num_paths == Len(path_list)
        touched == UNION {ToSet(path_list[i]) : i \in DOMAIN path_list}
        types == {node_types[n] : n \in touched}
    IN  [t \in types |->
            [n \in {m \in touched : node_types[m] = t} |->
                Frac(RawCount(path_list, n), num_paths)]]

\* _compute_pair_frequencies: self.pair_frequencies[pair] = normalized_pair_freq
_compute_pair_frequencies(path_list, pair) ==
    [p \in DOMAIN pair_frequencies \cup {pair} |->
        IF p = pair THEN NormalizedPairFreq(path_list) ELSE pair_frequencies[p]]

\* defaultdict(lambda: defaultdict(float)) with no key yet
EmptyTable == <<>>

\* one pass of `self.normalized_frequencies[node_type][node] += norm_freq`
\* over the table of one pair
AddPairFreqs(table, pair_freqs) ==
    [t \in DOMAIN table \cup DOMAIN pair_freqs |->
        [n \in (IF t \in DOMAIN table THEN DOMAIN table[t] ELSE {})
                \cup (IF t \in DOMAIN pair_freqs THEN DOMAIN pair_freqs[t] ELSE {}) |->
            LET old == IF t \in DOMAIN table /\ n \in DOMAIN table[t]
                       THEN table[t][n] ELSE <<0, 1>>
            IN  IF t \in DOMAIN pair_freqs /\ n \in DOMAIN pair_freqs[t]
                THEN AddFrac(old, pair_freqs[t][n]) ELSE old]]

\* the loop over self.pair_frequencies.values()
RECURSIVE Accumulate(_, _)
Accumulate(table, keys) ==
    IF keys = {} THEN table
    ELSE LET k == CHOOSE x \in keys : TRUE
         IN  Accumulate(AddPairFreqs(table, pair_frequencies[k]), keys \ {k})

-----------------------------------------------------------------------------
(* analyze_paths *)

\* itertools.combinations(selected, 2) as a list
RECURSIVE combinations2(_)
combinations2(selected) ==
    IF Len(selected) < 2 THEN <<>>
    ELSE [j \in 1..(Len(selected) - 1) |-> <<selected[1], selected[j + 1]>>]
         \o combinations2(Tail(selected))

\* the dict appended to self.shortest_paths for one path
PathRecord(path) ==
    [start |-> path[1], end |-> path[Len(path)], path |-> path,
     length |-> Len(path) - 1]

PathRecords(path_list) == [i \in DOMAIN path_list |-> PathRecord(path_list[i])]

NoResult == [kind |-> "none", value |-> 0, error |-> NoError]

\* analyze_paths without line 258: the global table is not reset
StartAnalysisNoReset(selection) ==
    IF selection.raised
    THEN /\ result' = [kind |-> "raised", value |-> 0, error |-> selection.error]
         /\ pc' = "idle"
         /\ UNCHANGED <<pairs, paths, total_paths_found>>
         /\ UNCHANGED analysis_vars
    ELSE /\ pairs' = combinations2(selection.value)
         /\ total_paths_found' = 0
         /\ pc' = "pairs"
         /\ result' = NoResult
         /\ UNCHANGED <<paths, shortest_paths, pair_frequencies, analyzed_nodes,
                        normalized_frequencies>>

\* analyze_paths with line 258 moved above the call of select_nodes
StartAnalysisResetFirst(selection) ==
    IF selection.raised
    THEN /\ result' = [kind |-> "raised", value |-> 0, error |-> selection.error]
         /\ pc' = "idle"
         /\ normalized_frequencies' = EmptyTable
         /\ UNCHANGED <<pairs, paths, total_paths_found>>
         /\ UNCHANGED <<shortest_paths, pair_frequencies, analyzed_nodes>>
    ELSE /\ pairs' = combinations2(selection.value)
         /\ total_paths_found' = 0
         /\ normalized_frequencies' = EmptyTable
         /\ pc' = "pairs"
         /\ result' = NoResult
         /\ UNCHANGED <<paths, shortest_paths, pair_frequencies, analyzed_nodes>>

\* a start that counts every selected node as analyzed
StartAnalysisMarkSelected(selection) ==
    IF selection.raised
    THEN /\ result' = [kind |-> "raised", value |-> 0, error |-> selection.error]
         /\ pc' = "idle"
         /\ UNCHANGED <<pairs, paths, total_paths_found>>
         /\ UNCHANGED analysis_vars
    ELSE /\ pairs' = combinations2(selection.value)
         /\ total_paths_found' = 0
         /\ normalized_frequencies' = EmptyTable
         /\ analyzed_nodes' = analyzed_nodes \cup ToSet(selection.value)
         /\ pc' = "pairs"
         /\ result' = NoResult
         /\ UNCHANGED <<paths, shortest_paths, pair_frequencies>>

\* lines 249-258: select the nodes, build the pairs, reset the global table.
\* An exception of select_nodes leaves analyze_paths at once.
StartAnalysis(selection) ==
    IF selection.raised
    THEN /\ result' = [kind |-> "raised", value |-> 0, error |-> selection.error]
         /\ pc' = "idle"
         /\ UNCHANGED <<pairs, paths, total_paths_found>>
         /\ UNCHANGED analysis_vars
    ELSE /\ pairs' = combinations2(selection.value)
         /\ total_paths_found' = 0
         /\ normalized_frequencies' = EmptyTable
         /\ pc' = "pairs"
         /\ result' = NoResult
         /\ UNCHANGED <<paths, shortest_paths, pair_frequencies, analyzed_nodes>>

\* analyze_paths(num_nodes, node_list) as one of at most max_runs calls: lines
\* 251-258; no method of the analyzer runs inside another call
analyze_paths_upto(max_runs) ==
    /\ pc = "idle"
    /\ cpc = "idle"
    /\ runs < max_runs
    /\ runs' = runs + 1
    /\ \E args \in SelectionArgs :
          \E selection \in select_nodes(args[1], args[2]) :
             StartAnalysis(selection)
    /\ UNCHANGED analyzer_vars
    /\ UNCHANGED visualizer
    /\ UNCHANGED call_vars
    /\ UNCHANGED centrality_vars

\* analyze_paths(num_nodes, node_list), called at most MaxRuns times
analyze_paths == analyze_paths_upto(MaxRuns)

\* an iteration that puts a pair without a path back at the end of the list
ProcessPairRetrying ==
    /\ pc = "pairs"
    /\ pairs # <<>>
    /\ LET pair == Head(pairs)
           found == find_all_shortest_paths(pair[1], pair[2])
       IN  /\ paths' = found
           /\ IF Truthy(found)
              THEN /\ pairs' = Tail(pairs)
                   /\ total_paths_found' = total_paths_found + Len(found.list)
                   /\ pair_frequencies' = _compute_pair_frequencies(found.list, pair)
                   /\ shortest_paths' = shortest_paths \o PathRecords(found.list)
                   /\ analyzed_nodes' = analyzed_nodes \cup
                          UNION {ToSet(found.list[i]) : i \in DOMAIN found.list}
              ELSE /\ pairs' = Tail(pairs) \o <<pair>>
                   /\ UNCHANGED <<total_paths_found, pair_frequencies,
                                  shortest_paths, analyzed_nodes>>
    /\ UNCHANGED <<pc, result, runs, normalized_frequencies>>
    /\ UNCHANGED analyzer_vars
    /\ UNCHANGED visualizer
    /\ UNCHANGED call_vars
    /\ UNCHANGED centrality_vars

\* lines 260-277: one iteration of `for p1, p2 in pairs`
ProcessPair ==
    /\ pc = "pairs"
    /\ pairs # <<>>
    /\ LET pair == Head(pairs)
           found == find_all_shortest_paths(pair[1], pair[2])
       IN  /\ paths' = found
           /\ pairs' = Tail(pairs)
           /\ IF Truthy(found)
              THEN /\ total_paths_found' = total_paths_found + Len(found.list)
                   /\ pair_frequencies' = _compute_pair_frequencies(found.list, pair)
                   /\ shortest_paths' = shortest_paths \o PathRecords(found.list)
                   /\ analyzed_nodes' = analyzed_nodes \cup
                          UNION {ToSet(found.list[i]) : i \in DOMAIN found.list}
              ELSE UNCHANGED <<total_paths_found, pair_frequencies,
                               shortest_paths, analyzed_nodes>>
    /\ UNCHANGED <<pc, result, runs, normalized_frequencies>>
    /\ UNCHANGED analyzer_vars
    /\ UNCHANGED visualizer
    /\ UNCHANGED call_vars
    /\ UNCHANGED centrality_vars

\* lines 279-286: fold every recorded pair into the global table and return
FinishAnalysis ==
    /\ pc = "pairs"
    /\ pairs = <<>>
    /\ normalized_frequencies' =
          Accumulate(normalized_frequencies, DOMAIN pair_frequencies)
    /\ result' = [kind |-> "returned", value |-> total_paths_found, error |-> NoError]
    /\ pc' = "idle"
    /\ paths' = NoneList
    /\ total_paths_found' = 0
    /\ UNCHANGED <<pairs, runs, shortest_paths, pair_frequencies, analyzed_nodes>>
    /\ UNCHANGED analyzer_vars
    /\ UNCHANGED visualizer
    /\ UNCHANGED call_vars
    /\ UNCHANGED centrality_vars

-----------------------------------------------------------------------------
(* calculate_centrality *)

\* G.subgraph(nodes): the adjacency induced on nodes
subgraph(adj, nodes) ==
    [n \in DOMAIN adj \cap nodes |-> adj[n] \cap nodes]

\* the nodes reached from the nodes of seen
RECURSIVE reached(_, _)
reached(adj, seen) ==
    LET more == UNION {adj[u] : u \in seen} \ seen
    IN  IF more = {} THEN seen ELSE reached(adj, seen \cup more)

\* nx.connected_components(G)
connected_components(adj) == {reached(adj, {n}) : n \in DOMAIN adj}

\* the shortest paths from s to t in adj
shortest_paths_in(adj, s, t) ==
    LET pred == predecessor(adj, {s}, {s}, (s :> {}))
    IN  IF t \notin DOMAIN pred THEN {} ELSE build_paths(pred, t)

Zero == <<0, 1>>

\* the sum of f[x] over the domain of f
RECURSIVE SumFrac(_)
SumFrac(f) ==
    IF DOMAIN f = {} THEN Zero
    ELSE LET x == CHOOSE y \in DOMAIN f : TRUE
         IN  AddFrac(f[x], SumFrac([y \in DOMAIN f \ {x} |-> f[y]]))

\* the share of the shortest s-t paths that pass through v
pair_dependency(adj, s, t, v) ==
    LET sp == shortest_paths_in(adj, s, t)
    IN  IF sp = {} THEN Zero
        ELSE Frac(Cardinality({q \in sp : v \in ToSet(q)}), Cardinality(sp))

\* _rescale(betweenness, n, normalized=True): 1 / ((n-1)(n-2)) for n > 2,
\* no rescaling for n <= 2
rescale(x, n) ==
    IF n <= 2 THEN x ELSE Frac(x[1], x[2] * (n - 1) * (n - 2))

\* betweenness that also counts the paths a node starts or ends
\* (endpoints=True)
betweenness_centrality_endpoints(adj) ==
    [v \in DOMAIN adj |->
        rescale(SumFrac([st \in {x \in (DOMAIN adj) \X (DOMAIN adj) : x[1] # x[2]}
                            |-> pair_dependency(adj, st[1], st[2], v)]),
                Cardinality(DOMAIN adj))]

\* nx.betweenness_centrality(G, normalized=True): every source s adds its
\* dependency on v, so each unordered pair is counted from both ends
betweenness_centrality(adj) ==
    [v \in DOMAIN adj |->
        rescale(SumFrac([st \in {x \in (DOMAIN adj \ {v}) \X (DOMAIN adj \ {v}) :
                                  x[1] # x[2]}
                            |-> pair_dependency(adj, st[1], st[2], v)]),
                Cardinality(DOMAIN adj))]

\* no calculate_centrality call has returned yet
NoCentrality == [kind |-> "none", branch |-> "none", value |-> <<>>]

\* a caller that has not called calculate_centrality: the number of its
\* calls, the number of analyze_paths calls made when it called last, and
\* the same number and the result of its call before the last
NoCaller == [calls |-> 0, runs |-> 0, earlier |-> NoCentrality, earlier_runs |-> 0]

\* self.undirected_graph taken whole
whole_undirected_graph == undirected_graph

\* line 300: self.undirected_graph.subgraph(self.analyzed_nodes)
analyzed_subgraph == subgraph(undirected_graph, analyzed_nodes)

\* {node: 0.0 for node in nodes}
zeros(nodes) == [n \in nodes |-> Zero]

\* dict.update
update(d, e) ==
    [k \in DOMAIN d \cup DOMAIN e |-> IF k \in DOMAIN e THEN e[k] ELSE d[k]]

\* a worker that weighs the scores of its component by the component's share
\* of the nodes
process_component_scaled(G, comp, fails) ==
    IF Cardinality(comp) <= 1 \/ fails THEN zeros(comp)
    ELSE LET b == betweenness_centrality(subgraph(G, comp))
         IN  [n \in comp |->
                Frac(b[n][1] * Cardinality(comp), b[n][2] * Cardinality(DOMAIN G))]

\* a worker that returns an entry for every node of the subgraph
process_component_all_nodes(G, comp, fails) ==
    update(zeros(DOMAIN G),
           IF Cardinality(comp) <= 1 \/ fails THEN zeros(comp)
           ELSE betweenness_centrality(subgraph(G, comp)))

\* process_component(comp) on the subgraph G, lines 317-340; fails says that
\* nx.betweenness_centrality raises inside the worker
process_component(G, comp, fails) ==
    IF Cardinality(comp) <= 1 THEN zeros(comp)
    ELSE IF fails THEN zeros(comp)
         ELSE betweenness_centrality(subgraph(G, comp))

\* a collection that starts the map afresh when a task failed
collect_or_clear(current, comp_centrality, raises) ==
    IF raises THEN zeros(DOMAIN current) ELSE update(current, comp_centrality)

\* lines 349-355: the body of `for future in as_completed(futures)`; raises
\* says that future.result() raises
collect(current, comp_centrality, raises) ==
    IF raises THEN current ELSE update(current, comp_centrality)

\* the ways a task ends: its result is delivered, betweenness_centrality
\* raised inside the worker, or future.result() raises
TaskOutcomes == {"result", "worker_error", "collect_error"}

\* a call that cuts self.undirected_graph down to the analyzed nodes
calculate_centrality_in_place ==
    /\ pc = "idle"
    /\ cpc = "idle"
    /\ undirected_graph' = analyzed_subgraph
    /\ centrality' = [kind |-> "returned", branch |-> "whole",
                      value |-> betweenness_centrality(analyzed_subgraph)]
    /\ UNCHANGED <<cpc, normalized_centrality, futures, caller>>
    /\ UNCHANGED <<disable_blacklist, graph, blacklist, node_types, proteins>>
    /\ UNCHANGED <<analysis_vars, local_vars, call_vars>>
    /\ UNCHANGED visualizer

\* a call that hands out the mapping of an earlier call when there is one
StartCentralityCached ==
    /\ pc = "idle"
    /\ cpc = "idle"
    /\ centrality' =
          IF centrality.kind = "returned" THEN centrality
          ELSE [kind |-> "returned", branch |-> "whole",
                value |-> betweenness_centrality(analyzed_subgraph)]
    /\ UNCHANGED <<cpc, normalized_centrality, futures>>
    /\ UNCHANGED <<analyzer_vars, analysis_vars, local_vars, call_vars>>
    /\ UNCHANGED visualizer

\* calculate_centrality(), lines 298-346: the computation on the whole
\* subgraph returns, or raises NetworkXError and one task per component is
\* submitted
StartCentrality ==
    /\ pc = "idle"
    /\ cpc = "idle"
    /\ \/ /\ centrality' = [kind |-> "returned", branch |-> "whole",
                            value |-> betweenness_centrality(analyzed_subgraph)]
          /\ UNCHANGED <<cpc, normalized_centrality, futures>>
       \/ /\ cpc' = "components"
          /\ normalized_centrality' = zeros(DOMAIN analyzed_subgraph)
          /\ futures' = [comp \in connected_components(analyzed_subgraph) |-> "pending"]
          /\ centrality' = NoCentrality
    /\ UNCHANGED <<analyzer_vars, analysis_vars, local_vars, call_vars>>
    /\ UNCHANGED visualizer

\* calculate_centrality() called by generate_html_report, line 680
calculate_centrality ==
    /\ StartCentrality
    /\ UNCHANGED caller

\* calculate_centrality() called by a caller that keeps the mapping it got
\* before and makes at most MaxCalls calls
calculate_centrality_again ==
    /\ caller.calls < MaxCalls
    /\ StartCentrality
    /\ caller' = [calls |-> caller.calls + 1, runs |-> runs,
                  earlier |-> centrality, earlier_runs |-> caller.runs]

\* lines 347-355: one task completes, in any order, and is collected
as_completed ==
    /\ cpc = "components"
    /\ \E comp \in {c \in DOMAIN futures : futures[c] = "pending"} :
          \E outcome \in TaskOutcomes :
             /\ futures' = [futures EXCEPT ![comp] = outcome]
             /\ normalized_centrality' =
                   collect(normalized_centrality,
                           process_component(analyzed_subgraph, comp,
                                             outcome = "worker_error"),
                           outcome = "collect_error")
    /\ UNCHANGED <<cpc, centrality, caller>>
    /\ UNCHANGED <<analyzer_vars, analysis_vars, local_vars, call_vars>>
    /\ UNCHANGED visualizer

\* lines 357-358: every task was collected, the map is returned
return_normalized_centrality ==
    /\ cpc = "components"
    /\ \A comp \in DOMAIN futures : futures[comp] # "pending"
    /\ centrality' = [kind |-> "returned", branch |-> "components",
                      value |-> normalized_centrality]
    /\ cpc' = "idle"
    /\ UNCHANGED <<normalized_centrality, futures, caller>>
    /\ UNCHANGED <<analyzer_vars, analysis_vars, local_vars, call_vars>>
    /\ UNCHANGED visualizer

-----------------------------------------------------------------------------
(* Ubiquitous nodes *)

\* __init__: self.threshold, with the default that main() leaves in place
threshold == <<9, 10>>

\* the nodes the analyzer marks as ubiquitous: self.threshold is stored by
\* __init__ and read by no method, and no field or return value holds such
\* a set
identified_ubiquitous == {}

-----------------------------------------------------------------------------
(* Construction and the specification *)

\* test_graphs.py has not called GraphVisualizer(data_dir)
NoVisualizer ==
    [pc |-> "start", data_dir |-> <<>>, depth |-> 0, fields |-> <<>>,
     error |-> "none"]

NoCall == [op |-> "none", num_nodes |-> None, node_list |-> None, name |-> <<>>]
NoCallResult == [raised |-> FALSE, error |-> NoError, value |-> <<>>]

\* __init__ and _initialize_network, given the arguments of the constructor
Constructed(g, custom_blacklist) ==
    /\ graph = g
    /\ blacklist = InitBlacklist(custom_blacklist)
    /\ node_types = InitNodeTypes(g)
    /\ proteins = InitProteins(g, InitBlacklist(custom_blacklist))
    /\ shortest_paths = <<>>
    /\ pair_frequencies = <<>>
    /\ normalized_frequencies = EmptyTable
    /\ analyzed_nodes = {}
    /\ undirected_graph = to_undirected(g)
    /\ pc = "idle"
    /\ pairs = <<>>
    /\ paths = NoneList
    /\ total_paths_found = 0
    /\ result = NoResult
    /\ runs = 0
    /\ call_args = NoCall
    /\ call_result = NoCallResult
    /\ cpc = "idle"
    /\ normalized_centrality = <<>>
    /\ futures = <<>>
    /\ centrality = NoCentrality
    /\ caller = NoCaller
    /\ visualizer = NoVisualizer

\* main(): the analyzer is built from the command line
Init ==
    /\ disable_blacklist \in BOOLEAN
    /\ \E g \in Graphs : Constructed(g, MainCustomBlacklist(disable_blacklist))

Next == analyze_paths \/ ProcessPair \/ FinishAnalysis

Spec == Init /\ [][Next]_vars

-----------------------------------------------------------------------------
(* Analysis followed by calculate_centrality, as generate_html_report does  *)
(* after main() called analyze_paths                                        *)

InitWide ==
    /\ disable_blacklist = FALSE
    /\ \E g \in WideGraphs : Constructed(g, MainCustomBlacklist(disable_blacklist))

analyze_paths_wide == analyze_paths_upto(MaxWideRuns)

NextWide ==
    \/ analyze_paths_wide
    \/ ProcessPair
    \/ FinishAnalysis
    \/ calculate_centrality
    \/ as_completed
    \/ return_normalized_centrality

SpecWide == InitWide /\ [][NextWide]_vars

-----------------------------------------------------------------------------
(* Direct calls of select_nodes on a constructed analyzer *)

CallSelectNodes ==
    /\ \E args \in SelectionArgs :
          /\ call_args' = [op |-> "select_nodes", num_nodes |-> args[1],
                           node_list |-> args[2], name |-> <<>>]
          /\ call_result' \in select_nodes(args[1], args[2])
    /\ UNCHANGED analyzer_vars
    /\ UNCHANGED visualizer
    /\ UNCHANGED analysis_vars
    /\ UNCHANGED local_vars
    /\ UNCHANGED centrality_vars

NextSelect == CallSelectNodes

SpecSelect == Init /\ [][NextSelect]_vars

-----------------------------------------------------------------------------
(* Direct calls of _is_blacklisted, the analyzer built with a custom blacklist *)

\* the characters of the names handed to _is_blacklisted
NameChars == {"A", "T", "P", "a", " "}

InitBlacklisted ==
    /\ disable_blacklist = FALSE
    /\ \E custom \in CustomBlacklists : Constructed(GraphFan, SomeSet(custom))

CallIsBlacklisted ==
    /\ call_args.op = "none"
    /\ \E name \in SeqsUpTo(NameChars, MaxNameLen) :
          /\ call_args' = [op |-> "_is_blacklisted", num_nodes |-> None,
                           node_list |-> None, name |-> name]
          /\ call_result' = Return(_is_blacklisted(name))
    /\ UNCHANGED analyzer_vars
    /\ UNCHANGED visualizer
    /\ UNCHANGED analysis_vars
    /\ UNCHANGED local_vars
    /\ UNCHANGED centrality_vars

NextBlacklisted == CallIsBlacklisted

SpecBlacklisted == InitBlacklisted /\ [][NextBlacklisted]_vars

-----------------------------------------------------------------------------
(* Properties: graph notions used to state them, defined on self.graph by   *)
(* exhaustive enumeration of walks                                          *)

Adjacent(u, v) == <<u, v>> \in graph.edges \/ <<v, u>> \in graph.edges

\* all walks with k edges that start in a
RECURSIVE WalksFrom(_, _)
WalksFrom(a, k) ==
    IF k = 0 THEN {<<a>>}
    ELSE UNION {{Append(w, v) : v \in {x \in NodeSet(graph) : Adjacent(w[Len(w)], x)}} :
                  w \in WalksFrom(a, k - 1)}

WalksBetween(a, b, k) == {w \in WalksFrom(a, k) : w[Len(w)] = b}

\* a and b are joined by a path (a path never needs more edges than nodes - 1)
Joined(a, b) == \E k \in 0..(Len(graph.nodes) - 1) : WalksBetween(a, b, k) # {}

\* the shortest-path distance of two joined nodes
Distance(a, b) ==
    CHOOSE k \in 0..(Len(graph.nodes) - 1) :
        /\ WalksBetween(a, b, k) # {}
        /\ \A j \in 0..(k - 1) : WalksBetween(a, b, j) = {}

\* every path from a to b with the minimum number of edges
MinimumPaths(a, b) == WalksBetween(a, b, Distance(a, b))

\* the step taken is one iteration of the loop over the pairs
IteratesPair == pc = "pairs" /\ pairs # <<>>

\* the records that the step appends to shortest_paths
Appended == SubSeq(shortest_paths', Len(shortest_paths) + 1, Len(shortest_paths'))

\* C1: for an analyzed pair (a,b) of distinct joined nodes, the records
\* appended for the pair are exactly the paths from a to b with the minimum
\* number of edges in the undirected view, each once, and every record has
\* start = a, end = b and length = nodes - 1 = the distance of a and b.
C1_ShortestPathsExact ==
    [][ (IteratesPair /\ Head(pairs)[1] # Head(pairs)[2]
            /\ Joined(Head(pairs)[1], Head(pairs)[2]))
        => LET a == Head(pairs)[1]
               b == Head(pairs)[2]
           IN  /\ SubSeq(shortest_paths', 1, Len(shortest_paths)) = shortest_paths
               /\ {Appended[i].path : i \in DOMAIN Appended} = MinimumPaths(a, b)
               /\ Len(Appended) = Cardinality(MinimumPaths(a, b))
               /\ \A i \in DOMAIN Appended :
                     /\ Appended[i].start = a
                     /\ Appended[i].end = b
                     /\ Appended[i].length = Len(Appended[i].path) - 1
                     /\ Appended[i].length = Distance(a, b) ]_vars

\* three shortest paths of two edges each have just been recorded
C1_Witness ==
    /\ pc = "pairs"
    /\ Truthy(paths)
    /\ Len(paths.list) = 3
    /\ \A i \in 1..3 : Len(paths.list[i]) = 3
    /\ Len(shortest_paths) >= 3
    /\ shortest_paths[Len(shortest_paths)].length = 2

\* the entry of node n in the table of one pair, searched under every type
HasEntry(table, n) == \E t \in DOMAIN table : n \in DOMAIN table[t]
EntryOf(table, n) == table[CHOOSE t \in DOMAIN table : n \in DOMAIN table[t]][n]

\* the fraction f has the value n / d
IsRatio(f, n, d) == f[2] # 0 /\ f[1] * d = n * f[2]

\* the paths of P that contain node n
Containing(P, n) == {p \in P : \E i \in DOMAIN p : p[i] = n}

\* C2: for a recorded pair with k >= 1 shortest paths, the entry of a node n
\* is (number of the pair's shortest paths containing n) / k; every node on
\* one of the paths has an entry, under its node type and no other; a node
\* on none has no entry; a node on all k paths, so each endpoint, has 1.
C2_PairFrequencies ==
    \A pair \in DOMAIN pair_frequencies :
        LET P == MinimumPaths(pair[1], pair[2])
            k == Cardinality(P)
            table == pair_frequencies[pair]
        IN  /\ k >= 1
            /\ \A n \in NodeSet(graph) :
                  IF Containing(P, n) # {}
                  THEN /\ node_types[n] \in DOMAIN table
                       /\ n \in DOMAIN table[node_types[n]]
                       /\ \A t \in DOMAIN table : n \in DOMAIN table[t] => t = node_types[n]
                       /\ IsRatio(table[node_types[n]][n], Cardinality(Containing(P, n)), k)
                       /\ Containing(P, n) = P => table[node_types[n]][n] = <<1, 1>>
                  ELSE ~HasEntry(table, n)
            /\ EntryOf(table, pair[1]) = <<1, 1>>
            /\ EntryOf(table, pair[2]) = <<1, 1>>
            /\ \A t \in DOMAIN table : DOMAIN table[t] \subseteq NodeSet(graph)

\* a pair with three shortest paths is recorded: the middle nodes have 1/3,
\* one of them filed under SmallMolecule, the endpoints have 1
C2_Witness ==
    \E pair \in DOMAIN pair_frequencies :
        /\ Cardinality(MinimumPaths(pair[1], pair[2])) = 3
        /\ "SmallMolecule" \in DOMAIN pair_frequencies[pair]
        /\ \E n \in DOMAIN pair_frequencies[pair]["SmallMolecule"] :
              pair_frequencies[pair]["SmallMolecule"][n] = <<1, 3>>
        /\ pair_frequencies[pair]["Protein"][pair[1]] = <<1, 1>>

\* sum of the entries of node n over the pairs in keys, as a fraction that is
\* not reduced
RECURSIVE SumOfEntries(_, _)
SumOfEntries(n, keys) ==
    IF keys = {} THEN <<0, 1>>
    ELSE LET k == CHOOSE x \in keys : TRUE
             rest == SumOfEntries(n, keys \ {k})
         IN  IF HasEntry(pair_frequencies[k], n)
             THEN LET e == EntryOf(pair_frequencies[k], n)
                  IN  <<rest[1] * e[2] + e[1] * rest[2], rest[2] * e[2]>>
             ELSE rest

Returned == pc = "idle" /\ result.kind = "returned"

\* C3: after every analyze_paths call that returns, also a second one, the
\* global frequency of each node is the sum of its per-pair frequencies over
\* every pair recorded in pair_frequencies, and a node with no per-pair entry
\* has no global entry.
C3_GlobalIsSumOfPairs ==
    Returned =>
        \A n \in NodeSet(graph) :
            LET with == {p \in DOMAIN pair_frequencies : HasEntry(pair_frequencies[p], n)}
                total == SumOfEntries(n, DOMAIN pair_frequencies)
            IN  IF with = {}
                THEN ~HasEntry(normalized_frequencies, n)
                ELSE /\ HasEntry(normalized_frequencies, n)
                     /\ node_types[n] \in DOMAIN normalized_frequencies
                     /\ n \in DOMAIN normalized_frequencies[node_types[n]]
                     /\ IsRatio(normalized_frequencies[node_types[n]][n],
                                total[1], total[2])

\* a second call has returned; pairs of both calls are recorded and some
\* node has a global frequency above 1
C3_Witness ==
    /\ Returned
    /\ runs = 2
    /\ Cardinality(DOMAIN pair_frequencies) >= 2
    /\ \E n \in NodeSet(graph) :
          /\ HasEntry(normalized_frequencies, n)
          /\ EntryOf(normalized_frequencies, n)[1] > EntryOf(normalized_frequencies, n)[2]
    /\ \E n \in NodeSet(graph) :
          /\ HasEntry(normalized_frequencies, n)
          /\ EntryOf(normalized_frequencies, n)[2] > 1

\* C4: when the two nodes of a pair have no path between them, the search
\* yields an empty result without an error, the loop goes on with the
\* remaining pairs, and the pair adds no record, no key of pair_frequencies,
\* nothing to the global frequencies, no analyzed node and nothing to the
\* path count.
C4_NoPathContributesNothing ==
    [][ (IteratesPair /\ ~Joined(Head(pairs)[1], Head(pairs)[2]))
        => /\ ~Truthy(paths') /\ paths'.list = <<>>
           /\ pc' = "pairs"
           /\ pairs' = Tail(pairs)
           /\ UNCHANGED <<shortest_paths, pair_frequencies, normalized_frequencies,
                          analyzed_nodes, total_paths_found>>
           /\ Head(pairs) \notin DOMAIN pair_frequencies' ]_vars

\* the last pair iterated had no path, after a pair of the same call had one
C4_Witness ==
    /\ pc = "pairs"
    /\ total_paths_found >= 1
    /\ paths.none
    /\ pairs = <<>>
    /\ shortest_paths # <<>>

-----------------------------------------------------------------------------
(* Properties of select_nodes, stated on its direct calls *)

\* the last direct call was select_nodes with an explicit list and no count
ListCall ==
    /\ call_args.op = "select_nodes"
    /\ call_args.num_nodes.none
    /\ ~call_args.node_list.none

\* the last direct call was select_nodes with a count
CountCall == call_args.op = "select_nodes" /\ ~call_args.num_nodes.none

NotFound(n) == n \notin NodeSet(graph)
Blacklisted(n) == n \in NodeSet(graph) /\ _is_blacklisted(n)
Valid(n) == n \in NodeSet(graph) /\ ~_is_blacklisted(n)

\* how often name n stands in sequence seq
CountIn(seq, n) == Cardinality({i \in DOMAIN seq : seq[i] = n})

\* C5: with an explicit node_list every listed node is in exactly one of the
\* classes not-found, blacklisted, valid; if a listed node is not-found or
\* blacklisted one error is raised that names every not-found node and every
\* blacklisted node of the list; the list is returned only when every listed
\* node is valid.
C5_ExplicitListAggregatedError ==
    ListCall =>
        LET l == call_args.node_list.v
            e == call_result.error
        IN  /\ \A n \in ToSet(l) :
                  LET lists == <<missing_nodes(l), blacklisted_nodes(l), valid_nodes(l)>>
                  IN  /\ Cardinality({c \in 1..3 : CountIn(lists[c], n) > 0}) = 1
                      /\ \E c \in 1..3 : CountIn(lists[c], n) = CountIn(l, n)
                      /\ CountIn(lists[1], n) > 0 <=> NotFound(n)
                      /\ CountIn(lists[2], n) > 0 <=> Blacklisted(n)
                      /\ CountIn(lists[3], n) > 0 <=> Valid(n)
            /\ (\E n \in ToSet(l) : NotFound(n) \/ Blacklisted(n))
                  => /\ call_result.raised
                     /\ e.kind = "invalid_nodes"
                     /\ \A n \in ToSet(l) :
                           /\ NotFound(n) => CountIn(e.missing, n) = CountIn(l, n)
                           /\ Blacklisted(n) => CountIn(e.blacklisted, n) = CountIn(l, n)
                           /\ Valid(n) => CountIn(e.missing, n) = 0
                                          /\ CountIn(e.blacklisted, n) = 0
            /\ ~call_result.raised
                  => /\ \A n \in ToSet(l) : Valid(n)
                     /\ call_result.value = l

\* a list with one missing and one blacklisted name raised one error that
\* names both
C5_Witness ==
    /\ ListCall
    /\ call_args.node_list.v = <<Z, ATP>>
    /\ ATP \in NodeSet(graph)
    /\ call_result.raised
    /\ call_result.error.missing = <<Z>>
    /\ call_result.error.blacklisted = <<ATP>>

\* the pool as _initialize_network builds it
EligiblePool ==
    {n \in NodeSet(graph) : node_types[n] = "Protein" /\ ~_is_blacklisted(n)}

\* what C7 promises of a call select_nodes(num_nodes = n)
SampleOfPool(n) ==
    /\ ~call_result.raised
    /\ Len(call_result.value) = n
    /\ \A i, j \in DOMAIN call_result.value :
          i # j => call_result.value[i] # call_result.value[j]
    /\ ToSet(call_result.value) \subseteq EligiblePool
    /\ ToSet(proteins) = EligiblePool
    /\ proteins = InitProteins(graph, blacklist)

\* C7 as claimed: select_nodes(num_nodes = n) with 0 <= n <= size of the
\* eligible pool returns n pairwise distinct eligible Protein nodes and
\* leaves the pool unchanged.
C7_SampleWithinPool ==
    (CountCall /\ 0 <= call_args.num_nodes.v
               /\ call_args.num_nodes.v <= Len(proteins))
        => SampleOfPool(call_args.num_nodes.v)

\* C7 amended: the same, for a pool that is not empty.
C7_SampleWithinNonEmptyPool ==
    (CountCall /\ proteins # <<>> /\ 0 <= call_args.num_nodes.v
               /\ call_args.num_nodes.v <= Len(proteins))
        => SampleOfPool(call_args.num_nodes.v)

\* three nodes were asked of a pool of three and returned
C7_Witness ==
    /\ CountCall
    /\ call_args.num_nodes.v = 3
    /\ Len(proteins) = 3
    /\ ~call_result.raised
    /\ Len(call_result.value) = 3
    /\ call_result.value[1] # proteins[1]

\* C8: random selection raises an error, and returns no clamped selection,
\* whenever the pool is empty (for any count, the message suggesting to
\* disable the blacklist) or the count is larger than the pool.
C8_RandomSelectionFails ==
    CountCall =>
        /\ proteins = <<>>
              => /\ call_result.raised
                 /\ call_result.error.kind = "empty_pool"
                 /\ call_result.error.suggests_disable_blacklist
        /\ call_args.num_nodes.v > Len(proteins)
              => /\ call_result.raised
                 /\ call_result.value = <<>>

\* more nodes than the non-empty pool holds were asked for, and it raised
C8_Witness ==
    /\ CountCall
    /\ proteins # <<>>
    /\ call_args.num_nodes.v = Len(proteins) + 1
    /\ call_result.raised
    /\ call_result.error.kind = "too_many"

\* the step is a call of analyze_paths
CallsAnalyzePaths == pc = "idle" /\ runs' = runs + 1

\* C6: whenever node selection fails inside analyze_paths (neither argument
\* given, empty pool, count above the pool size, a list with a missing or
\* blacklisted node), the error is raised before any path is searched and
\* the four analysis fields are what they were before the call.
C6_SelectionFailureChangesNothing ==
    [][ CallsAnalyzePaths
        => /\ result'.kind \in {"raised", "none"}
           /\ result'.kind = "raised"
                <=> result'.error.kind \in {"neither", "empty_pool", "too_many",
                                            "sample", "invalid_nodes", "no_valid"}
           /\ result'.kind = "raised"
                => /\ pc' = "idle"
                   /\ paths' = paths
                   /\ UNCHANGED <<shortest_paths, pair_frequencies,
                                  normalized_frequencies, analyzed_nodes>>
           /\ result'.kind = "none" => pc' = "pairs" ]_vars

\* a second call failed on its node list after a first one filled the tables
C6_Witness ==
    /\ runs = 2
    /\ pc = "idle"
    /\ result.kind = "raised"
    /\ result.error.kind = "invalid_nodes"
    /\ shortest_paths # <<>>
    /\ normalized_frequencies # EmptyTable
    /\ pair_frequencies # <<>>
    /\ analyzed_nodes # {}

\* C10 as claimed: run with --disable-blacklist, no node name is treated as
\* blacklisted, every Protein node is in the eligible pool and no explicit
\* list is rejected for a blacklisted name.
C10_DisableBlacklist ==
    disable_blacklist =>
        /\ \A n \in NodeSet(graph) : ~_is_blacklisted(n)
        /\ \A n \in NodeSet(graph) : node_types[n] = "Protein" => n \in ToSet(proteins)
        /\ ListCall => call_result.error.blacklisted = <<>>

-----------------------------------------------------------------------------
(* Properties of _is_blacklisted, stated on its direct calls *)

\* the name in upper case
InUpperCase(s) == [i \in 1..Len(s) |-> UpperChar(s[i])]

\* the name without the whitespace at its two ends
Trimmed(s) ==
    LET inked == {i \in 1..Len(s) : s[i] # " "}
    IN  IF inked = {} THEN <<>>
        ELSE SubSeq(s, CHOOSE i \in inked : \A j \in inked : i <= j,
                       CHOOSE i \in inked : \A j \in inked : i >= j)

\* the whole tokens of s: its maximal runs of characters other than whitespace
Tokens(s) ==
    {SubSeq(s, i, j) : <<i, j>> \in
        {ij \in (1..Len(s)) \X (1..Len(s)) :
            /\ ij[1] <= ij[2]
            /\ \A m \in ij[1]..ij[2] : s[m] # " "
            /\ ij[1] = 1 \/ s[ij[1] - 1] = " "
            /\ ij[2] = Len(s) \/ s[ij[2] + 1] = " "}}

\* the tokens of every blacklist entry in upper case
TokensOfEntry == [item \in BlacklistEntries |-> Tokens(InUpperCase(item))]
TrimmedEntry == [item \in BlacklistEntries |-> Trimmed(InUpperCase(item))]

IsBlacklistedCall == call_args.op = "_is_blacklisted"

-----------------------------------------------------------------------------
(* Properties of the pairs and of the state kept between calls *)

\* C11 as claimed: in every run the analyzed pairs are unordered pairs of two
\* distinct selected nodes, each taken once: no pair (a,a), never both (a,b)
\* and (b,a), no pair twice, also for a node_list that names a node twice;
\* so no pair (a,a) becomes a key of pair_frequencies.
C11_PairsDistinctUnordered ==
    /\ pc = "pairs" =>
          /\ \A i \in DOMAIN pairs : pairs[i][1] # pairs[i][2]
          /\ \A i, j \in DOMAIN pairs :
                i # j => /\ pairs[i] # pairs[j]
                         /\ pairs[i] # <<pairs[j][2], pairs[j][1]>>
    /\ \A pair \in DOMAIN pair_frequencies : pair[1] # pair[2]

\* C12 as claimed: after a call that returns, the analysis fields hold only
\* what that call produced: every recorded path once, and as many records
\* as the call returned.
C12_OnlyLatestRun ==
    Returned =>
        /\ Len(shortest_paths) = result.value
        /\ \A i, j \in DOMAIN shortest_paths :
              i # j => shortest_paths[i] # shortest_paths[j]
        /\ (result.value = 0 => pair_frequencies = <<>> /\ analyzed_nodes = {}
                                /\ normalized_frequencies = EmptyTable)

\* x <= y for two fractions with positive denominators
LeqFrac(x, y) == x[1] * y[2] <= y[1] * x[2]

\* every entry of table old is in table new with a value at least as large
NeverDecreased(old, new) ==
    \A t \in DOMAIN old : \A n \in DOMAIN old[t] :
        /\ t \in DOMAIN new
        /\ n \in DOMAIN new[t]
        /\ LeqFrac(old[t][n], new[t][n])

\* the step belongs to a run of analyze_paths that does not fail at once
StepOfRun == pc = "pairs" \/ (pc = "idle" /\ pc' = "pairs")

\* C20 as claimed: during a run the global table is updated as each pair is
\* processed (the nodes of the pair's paths have their entry after the
\* iteration) and no entry is removed or lowered from one step to the next.
C20_IncrementalNeverDecreases ==
    [][ /\ StepOfRun => NeverDecreased(normalized_frequencies, normalized_frequencies')
        /\ (IteratesPair /\ Truthy(paths'))
              => \A i \in DOMAIN paths'.list : \A n \in ToSet(paths'.list[i]) :
                    HasEntry(normalized_frequencies', n) ]_vars

\* C20 amended: a run empties the global table once, when it starts; the
\* table stays empty while the pairs are processed and is filled after the
\* last pair; from the reset on no entry is removed or lowered.
C20_ResetThenFilledAtEnd ==
    [][ /\ (pc = "idle" /\ pc' = "pairs") => normalized_frequencies' = EmptyTable
        /\ IteratesPair => /\ normalized_frequencies = EmptyTable
                           /\ normalized_frequencies' = EmptyTable
        /\ pc = "pairs"
              => NeverDecreased(normalized_frequencies, normalized_frequencies')
        /\ (pc = "pairs" /\ pc' = "idle")
              => \A p \in DOMAIN pair_frequencies : \A t \in DOMAIN pair_frequencies[p] :
                    \A n \in DOMAIN pair_frequencies[p][t] :
                       HasEntry(normalized_frequencies', n) ]_vars

\* a second run is iterating its pairs: the table of the first run is gone
\* while its pair tables and path records are still there
C20_Witness ==
    /\ pc = "pairs"
    /\ runs = 2
    /\ pairs = <<>>
    /\ Truthy(paths)
    /\ normalized_frequencies = EmptyTable
    /\ Cardinality(DOMAIN pair_frequencies) >= 2

-----------------------------------------------------------------------------
(* Properties of calculate_centrality: betweenness stated on self.graph by  *)
(* exhaustive enumeration of the walks that stay inside a set of nodes      *)

\* the nodes that occur in at least one recorded shortest path
Touched == UNION {ToSet(shortest_paths[i].path) : i \in DOMAIN shortest_paths}

\* all walks with k edges that start in a and use only nodes of S
RECURSIVE WalksWithin(_, _, _)
WalksWithin(S, a, k) ==
    IF k = 0 THEN {<<a>>}
    ELSE UNION {{Append(w, v) : v \in {x \in S : Adjacent(w[Len(w)], x)}} :
                  w \in WalksWithin(S, a, k - 1)}

\* the walks from a to b inside S with the fewest edges; empty when a and b
\* are not joined inside S
GeodesicsWithin(S, a, b) ==
    LET to_b(k) == {w \in WalksWithin(S, a, k) : w[Len(w)] = b}
        lens == {k \in 0..(Cardinality(S) - 1) : to_b(k) # {}}
    IN  IF lens = {} THEN {}
        ELSE to_b(CHOOSE k \in lens : \A j \in lens : k <= j)

\* the part of S joined to n inside S
ComponentWithin(S, n) == {m \in S : GeodesicsWithin(S, n, m) # {}}

\* the sum of the fractions f[x], not reduced
RECURSIVE TotalOf(_)
TotalOf(f) ==
    IF DOMAIN f = {} THEN <<0, 1>>
    ELSE LET x == CHOOSE y \in DOMAIN f : TRUE
             rest == TotalOf([y \in DOMAIN f \ {x} |-> f[y]])
         IN  <<rest[1] * f[x][2] + f[x][1] * rest[2], rest[2] * f[x][2]>>

\* the unordered pairs of nodes of S other than v that are joined inside S
JoinedPairs(S, v) ==
    {P \in SUBSET (S \ {v}) : /\ Cardinality(P) = 2
                               /\ \E a, b \in P : a # b /\ GeodesicsWithin(S, a, b) # {}}

\* betweenness of v in the graph induced on S, normalized by the number of
\* pairs of the other nodes, (n-1)(n-2)/2, when S has more than two nodes
BetweennessWithin(S, v) ==
    LET n == Cardinality(S)
        share(P) == LET a == CHOOSE x \in P : TRUE
                        b == CHOOSE x \in P : x # a
                        geo == GeodesicsWithin(S, a, b)
                    IN  <<Cardinality({w \in geo : v \in ToSet(w)}), Cardinality(geo)>>
        total == TotalOf([P \in JoinedPairs(S, v) |-> share(P)])
    IN  IF n <= 2 THEN total
        ELSE <<2 * total[1], total[2] * (n - 1) * (n - 2)>>

\* two fractions have the same value
SameValue(x, y) == x[2] # 0 /\ y[2] # 0 /\ x[1] * y[2] = y[1] * x[2]

\* the step is a calculate_centrality call that returns the score of the
\* whole subgraph
ReturnsWhole ==
    /\ pc = "idle" /\ cpc = "idle" /\ cpc' = "idle"
    /\ runs' = runs
    /\ centrality'.kind = "returned" /\ centrality'.branch = "whole"

\* the step is the return of the per-component computation
ReturnsComponents == cpc = "components" /\ cpc' = "idle"

\* C13: the returned mapping has exactly the touched nodes as keys (which
\* are the analyzed nodes), and each score is a betweenness taken in the
\* graph induced on the touched nodes: of the whole induced graph on the
\* whole-graph branch, of the node's component of it on the per-component
\* branch, or 0 when the component's task failed.
C13_ScopeIsTouchedNodes ==
    [][ (ReturnsWhole \/ ReturnsComponents)
        => /\ centrality'.kind = "returned"
           /\ DOMAIN centrality'.value = Touched
           /\ Touched = analyzed_nodes
           /\ \A n \in Touched :
                 IF ReturnsWhole
                 THEN SameValue(centrality'.value[n], BetweennessWithin(Touched, n))
                 ELSE \/ centrality'.value[n] = <<0, 1>>
                      \/ SameValue(centrality'.value[n],
                                   BetweennessWithin(ComponentWithin(Touched, n), n)) ]_vars

\* the per-component branch has returned the scores of the chain A-M-B
\* while C and D are untouched: the middle node scores 1 inside the touched
\* nodes (it would score 1/6 in the whole graph)
C13_Witness ==
    /\ cpc = "idle"
    /\ centrality.kind = "returned"
    /\ centrality.branch = "components"
    /\ DOMAIN centrality.value = analyzed_nodes
    /\ analyzed_nodes = {A, M, B}
    /\ NodeSet(graph) \ analyzed_nodes # {}
    /\ centrality.value[M] = <<1, 1>>
    /\ \E comp \in DOMAIN futures : futures[comp] = "result"

\* the touched nodes fall into more than one component
Disconnected == \E n, m \in Touched : GeodesicsWithin(Touched, n, m) = {}

\* x = y * c / total
IsScaled(x, y, c, total) == x[2] # 0 /\ y[2] # 0 /\ x[1] * y[2] * total = y[1] * c * x[2]

C15_NonNegativeSmallComponentsZero ==
    [][ (ReturnsWhole \/ ReturnsComponents)
        => \A n \in DOMAIN centrality'.value :
              /\ centrality'.value[n][2] > 0
              /\ centrality'.value[n][1] >= 0
              /\ Cardinality(ComponentWithin(Touched, n)) <= 2
                    => centrality'.value[n][1] = 0 ]_vars

\* the computation on the whole subgraph has returned for five touched
\* nodes: C and D, a component of two, score 0 next to M, which scores more
C15_Witness ==
    /\ cpc = "idle"
    /\ centrality.kind = "returned"
    /\ centrality.branch = "whole"
    /\ DOMAIN centrality.value = {A, M, B, C, D}
    /\ analyzed_nodes = {A, M, B, C, D}
    /\ centrality.value[C] = <<0, 1>>
    /\ centrality.value[D] = <<0, 1>>
    /\ centrality.value[M][1] > 0

\* the task of component comp failed, inside the worker or at collection
Failed(comp) == futures[comp] \in {"worker_error", "collect_error"}

\* C16: the per-component computation returns normally only after every
\* task was collected, whatever tasks failed; every node of a component
\* whose task failed has score 0, and every node of a component whose task
\* delivered has the score that task computed.
C16_FailureIsolatedPerComponent ==
    [][ ReturnsComponents
        => /\ centrality'.kind = "returned"
           /\ \A comp \in DOMAIN futures :
                 /\ futures[comp] \in TaskOutcomes
                 /\ comp \subseteq DOMAIN centrality'.value
                 /\ Failed(comp) => \A n \in comp : centrality'.value[n] = <<0, 1>>
                 /\ ~Failed(comp)
                       => \A n \in comp :
                             SameValue(centrality'.value[n], BetweennessWithin(comp, n)) ]_vars

\* the computation has returned after the result of the task of C-D could
\* not be collected: C and D score 0 and M keeps the score 1 of its task
C16_Witness ==
    /\ cpc = "idle"
    /\ centrality.kind = "returned"
    /\ centrality.branch = "components"
    /\ DOMAIN futures = {{A, M, B}, {C, D}}
    /\ futures[{C, D}] = "collect_error"
    /\ futures[{A, M, B}] = "result"
    /\ centrality.value[C] = <<0, 1>>
    /\ centrality.value[M] = <<1, 1>>
    /\ analyzed_nodes = {A, M, B, C, D}

\* the map fixed by the components and the outcomes of their tasks alone
MapOfOutcomes ==
    [n \in UNION (DOMAIN futures) |->
        LET comp == CHOOSE c \in DOMAIN futures : n \in c
        IN  IF futures[comp] = "result" THEN BetweennessWithin(comp, n) ELSE <<0, 1>>]

\* C17: the components of the tasks are pairwise disjoint, a completing
\* task changes only the keys of its own component, and the map returned is
\* fixed by the outcomes of the tasks, so it is the same for every order in
\* which they complete.
C17_CompletionOrderIrrelevant ==
    [][ /\ cpc = "components"
          => \A c1, c2 \in DOMAIN futures : c1 # c2 => c1 \cap c2 = {}
        /\ (cpc = "components" /\ cpc' = "components")
          => \E comp \in DOMAIN futures :
                /\ futures[comp] = "pending"
                /\ futures' = [futures EXCEPT ![comp] = futures'[comp]]
                /\ futures'[comp] \in TaskOutcomes
                /\ DOMAIN normalized_centrality' = DOMAIN normalized_centrality
                /\ \A n \in DOMAIN normalized_centrality \ comp :
                      normalized_centrality'[n] = normalized_centrality[n]
        /\ ReturnsComponents
          => /\ DOMAIN centrality'.value = DOMAIN MapOfOutcomes
             /\ \A n \in DOMAIN MapOfOutcomes :
                   SameValue(centrality'.value[n], MapOfOutcomes[n]) ]_vars

\* the tasks of the two components A-M-B and C-D both delivered, in either
\* order, and the map was returned
C17_Witness ==
    /\ cpc = "idle"
    /\ centrality.kind = "returned"
    /\ centrality.branch = "components"
    /\ DOMAIN futures = {{A, M, B}, {C, D}}
    /\ \A comp \in DOMAIN futures : futures[comp] = "result"
    /\ centrality.value[M] = <<1, 1>>
    /\ centrality.value[A] = <<0, 1>>
    /\ centrality.value[D] = <<0, 1>>

\* C18: no step of analyze_paths (with the select_nodes and
\* find_all_shortest_paths calls it makes) or of calculate_centrality changes
\* the graph's nodes and edges, the undirected view, the node-type map, the
\* eligible protein pool or the blacklist.
C18_AnalyzerReadOnly ==
    [][ /\ graph' = graph
        /\ undirected_graph' = undirected_graph
        /\ node_types' = node_types
        /\ proteins' = proteins
        /\ blacklist' = blacklist ]_vars

\* an analysis that recorded paths and a per-component centrality have both
\* returned, and the analyzer is as it was constructed
C18_Witness ==
    /\ Returned
    /\ result.value >= 2
    /\ cpc = "idle"
    /\ centrality.kind = "returned"
    /\ centrality.branch = "components"
    /\ DOMAIN centrality.value = analyzed_nodes
    /\ graph = GraphTwoParts
    /\ undirected_graph = to_undirected(graph)
    /\ node_types = InitNodeTypes(graph)
    /\ proteins = <<A, B, C, D>>
    /\ blacklist = DEFAULT_BLACKLIST

-----------------------------------------------------------------------------
(* Nodes with a frequency, nodes on a path, analyzed nodes *)

\* C19: after every analyze_paths call that returns, a node has an entry in
\* the global frequency table exactly when it occurs in a recorded shortest
\* path, which is exactly when it is in analyzed_nodes; a node on no recorded
\* path, selected or not, is in no per-pair table either.
C19_EntriesAreTouchedNodes ==
    Returned =>
        \A n \in NodeSet(graph) :
            /\ HasEntry(normalized_frequencies, n) <=> n \in Touched
            /\ n \in analyzed_nodes <=> n \in Touched
            /\ n \notin Touched
                  => \A pair \in DOMAIN pair_frequencies :
                        ~HasEntry(pair_frequencies[pair], n)

\* the triangle A-B-C with the isolated protein D, all four in the pool: the
\* call returned 3, the pairs A-B, A-C and B-C are recorded with one path of
\* length 1 each, and D is in no table and not analyzed
C19_Witness ==
    /\ Returned
    /\ graph = GraphTriangle
    /\ ToSet(proteins) = {A, B, C, D}
    /\ result.value = 3
    /\ Len(shortest_paths) = 3
    /\ \A i \in DOMAIN shortest_paths : shortest_paths[i].length = 1
    /\ {{pair[1], pair[2]} : pair \in DOMAIN pair_frequencies} = {{A, B}, {A, C}, {B, C}}
    /\ analyzed_nodes = {A, B, C}
    /\ \A n \in {A, B, C} : HasEntry(normalized_frequencies, n)
    /\ ~HasEntry(normalized_frequencies, D)
    /\ \A pair \in DOMAIN pair_frequencies : ~HasEntry(pair_frequencies[pair], D)

-----------------------------------------------------------------------------
(* _is_blacklisted evaluated again and again, on several graphs and between *)
(* analyses                                                                 *)

\* the names that are evaluated
ProbeNames == {A, M, ATP, ATP_B, <<"a", "t", "p">>, <<"T", " ", "A">>, <<"A", "T">>}

InitProbe ==
    /\ disable_blacklist = FALSE
    /\ \E g \in Graphs : \E custom \in CustomBlacklists :
          Constructed(g, SomeSet(custom))

\* self._is_blacklisted(name), called at any time between two analyses
ProbeIsBlacklisted ==
    /\ pc = "idle"
    /\ \E name \in ProbeNames :
          /\ call_args' = [op |-> "_is_blacklisted", num_nodes |-> None,
                           node_list |-> None, name |-> name]
          /\ call_result' = Return(_is_blacklisted(name))
    /\ UNCHANGED analyzer_vars
    /\ UNCHANGED visualizer
    /\ UNCHANGED analysis_vars
    /\ UNCHANGED local_vars
    /\ UNCHANGED centrality_vars

NextProbe ==
    \/ analyze_paths_wide
    \/ ProcessPair
    \/ FinishAnalysis
    \/ ProbeIsBlacklisted

SpecProbe == InitProbe /\ [][NextProbe]_vars

\* the rule of C9 as a function of the name and a blacklist alone
ExpectedBlacklisted(bl, name) ==
    LET up == InUpperCase(name)
    IN  \E item \in bl :
            \/ Trimmed(up) = TrimmedEntry[item]
            \/ TokensOfEntry[item] # {} /\ TokensOfEntry[item] \subseteq Tokens(up)

\* C22: an evaluation of _is_blacklisted gives what the name and the
\* configured blacklist alone fix, on every graph and in every state an
\* analysis leaves the analyzer in, and an evaluation of the name evaluated
\* last gives the result it gave then, whatever was analyzed in between.
C22_EligibilityIsPure ==
    [][ IsBlacklistedCall'
        => /\ call_result'.value = ExpectedBlacklisted(blacklist', call_args'.name)
           /\ ~call_result'.raised
           /\ (IsBlacklistedCall /\ call_args'.name = call_args.name)
                 => call_result'.value = call_result.value ]_vars

\* the name "atp B" was found blacklisted after an analysis recorded paths
\* on a graph in which no node has that name
C22_Witness ==
    /\ IsBlacklistedCall
    /\ call_args.name = ATP_B
    /\ call_result.value = TRUE
    /\ Returned
    /\ result.value >= 1
    /\ ATP_B \notin NodeSet(graph)
    /\ Cardinality(NodeSet(graph)) = 5

-----------------------------------------------------------------------------
(* calculate_centrality called again and again by a caller that keeps the   *)
(* mapping of its call before                                               *)

InitAgain ==
    /\ disable_blacklist = FALSE
    /\ Constructed(GraphTwoParts, MainCustomBlacklist(disable_blacklist))

NextAgain ==
    \/ analyze_paths_wide
    \/ ProcessPair
    \/ FinishAnalysis
    \/ calculate_centrality_again
    \/ as_completed
    \/ return_normalized_centrality

SpecAgain == InitAgain /\ [][NextAgain]_vars

\* the step belongs to a calculate_centrality call
CentralityStep == cpc = "components" \/ cpc' = "components" \/ caller' # caller

\* the step hands a mapping to the caller
ReturnsToCaller == (caller' # caller /\ cpc' = "idle") \/ ReturnsComponents

\* the caller got a mapping from its call before, and no analyze_paths call
\* was made since
ConsecutiveCalls ==
    /\ caller'.calls >= 2
    /\ caller'.earlier.kind = "returned"
    /\ caller'.earlier_runs = runs

-----------------------------------------------------------------------------
(* Progress: the loop of analyze_paths goes on to its next iteration, a     *)
(* submitted task ends, and the collecting loop goes on                     *)

\* the loop of analyze_paths has a pair left (ProcessPair is enabled)
PairPending == pc = "pairs" /\ pairs # <<>>

\* the loop of analyze_paths has run out of pairs (FinishAnalysis is enabled)
PairsDone == pc = "pairs" /\ pairs = <<>>

\* a task is still running in the pool (as_completed is enabled)
TaskPending ==
    /\ cpc = "components"
    /\ \E comp \in DOMAIN futures : futures[comp] = "pending"

\* Weak fairness of every step of the two loops: the interpreter goes on to
\* the next statement and the pool runs every submitted task.  For the three
\* steps whose guard is one of the predicates above, WF_vars(step) is written
\* out with that guard in place of ENABLED <<step>>_vars.
Fairness ==
    /\ ([]<>(~PairPending) \/ []<><<ProcessPair>>_vars)
    /\ ([]<>(~PairsDone) \/ []<><<FinishAnalysis>>_vars)
    /\ ([]<>(~TaskPending) \/ []<><<as_completed>>_vars)
    /\ WF_vars(return_normalized_centrality)

SpecLive == InitAgain /\ [][NextWide]_vars /\ Fairness

\* C24: an analyze_paths call that entered its loop eventually returns (a
\* call whose selection fails raises at once), a calculate_centrality call
\* that submitted its tasks eventually returns, and it returns only after
\* every task delivered its result or failed.
C24_NoOperationBlocks ==
    /\ (pc = "pairs") ~> (pc = "idle" /\ result.kind = "returned")
    /\ (cpc = "components") ~> (cpc = "idle" /\ centrality.kind = "returned")
    /\ [][ReturnsComponents
            => \A comp \in DOMAIN futures : futures[comp] \in TaskOutcomes]_vars
    /\ [][(pc = "idle" /\ runs' = runs + 1)
            => (pc' = "pairs" \/ result'.kind = "raised")]_vars

\* both operations have returned: an analysis that iterated over pairs
\* without a path, and a per-component computation with a failed task
C24_Witness ==
    /\ pc = "idle"
    /\ result.kind = "returned"
    /\ result.value = 2
    /\ analyzed_nodes = {A, M, B, C, D}
    /\ cpc = "idle"
    /\ centrality.kind = "returned"
    /\ centrality.branch = "components"
    /\ \E comp \in DOMAIN futures : futures[comp] = "collect_error"
    /\ \A comp \in DOMAIN futures : futures[comp] # "pending"

-----------------------------------------------------------------------------
(* Ubiquitous nodes, the text report, the graph visualizer *)

\* the number of recorded paths that contain node n
OccurrenceCount(n) ==
    Cardinality({i \in DOMAIN shortest_paths : n \in ToSet(shortest_paths[i].path)})

\* C21 as claimed: after a run the analyzer identifies as ubiquitous exactly
\* the nodes whose occurrence count over the analyzed paths divided by the
\* number of paths found is at least the threshold; with no path found the
\* set is empty.
C21_UbiquitousIdentified ==
    (Returned /\ runs = 1) =>
        /\ result.value = 0 => identified_ubiquitous = {}
        /\ result.value > 0 =>
              \A n \in NodeSet(graph) :
                  n \in identified_ubiquitous
                  <=> OccurrenceCount(n) * threshold[2] >= threshold[1] * result.value

-----------------------------------------------------------------------------
(* generate_txt_report, called by main() after analyze_paths returned       *)

\* the attributes assigned to self by __init__ and _initialize_network
\* (lines 57-59, 75-88); no other method assigns a new one
instance_attributes ==
    {"graph", "threshold", "blacklist", "node_types", "proteins",
     "shortest_paths", "pair_frequencies", "normalized_frequencies",
     "analyzed_nodes", "undirected_graph"}

\* lines 850-855: one entry of the report per recorded path
report_path_lines ==
    [i \in DOMAIN shortest_paths |->
        [start |-> shortest_paths[i].start, end |-> shortest_paths[i].end,
         length |-> shortest_paths[i].length, path |-> shortest_paths[i].path]]

\* lines 841-868: the path lines are built, then self.frequent_nodes is
\* read (line 859), which raises AttributeError when self has no such
\* attribute
generate_txt_report ==
    IF "frequent_nodes" \in instance_attributes
    THEN Return([paths |-> report_path_lines, frequent_nodes |-> node_types])
    ELSE Raise("AttributeError", <<>>, <<>>, FALSE)

\* main(), lines 931-935: the report is generated once analyze_paths has
\* returned (a raising analyze_paths ends main at line 927)
CallGenerateTxtReport ==
    /\ pc = "idle" /\ cpc = "idle"
    /\ result.kind = "returned"
    /\ call_args' = [NoCall EXCEPT !.op = "generate_txt_report"]
    /\ call_result' = generate_txt_report
    /\ UNCHANGED analyzer_vars
    /\ UNCHANGED visualizer
    /\ UNCHANGED analysis_vars
    /\ UNCHANGED local_vars
    /\ UNCHANGED centrality_vars

NextReport ==
    \/ analyze_paths_wide
    \/ ProcessPair
    \/ FinishAnalysis
    \/ CallGenerateTxtReport

SpecReport == Init /\ [][NextReport]_vars

\* C25 as claimed: once analyze_paths has returned, generate_txt_report does
\* not raise and returns a report that lists every recorded shortest path
\* with its start, end and length.
C25_TxtReportReturned ==
    call_args.op = "generate_txt_report" =>
        /\ ~call_result.raised
        /\ call_result.value.paths = report_path_lines

-----------------------------------------------------------------------------
(* GraphVisualizer (graph_visualizer.py), constructed by test_graphs.py     *)

\* the depth of calls at which the interpreter raises RecursionError
MaxRecursionDepth == 5

\* the length of a directory name
MaxDirLen == 3

\* the directories handed to the constructor
DataDirs == SeqsUpTo({"D", "a", "t", "/"}, MaxDirLen)

\* lines 28-66: the names the class defines as properties with a setter
properties == {"data_dir", "graph"}

\* test_graphs.py line 11 calls GraphVisualizer(data_dir): __init__ is
\* entered and is about to run line 25
CallGraphVisualizer ==
    /\ visualizer.pc = "start"
    /\ \E dir \in DataDirs :
          visualizer' = [pc |-> "assign_data_dir", data_dir |-> dir, depth |-> 1,
                         fields |-> <<>>, error |-> "none"]
    /\ UNCHANGED <<analyzer_vars, analysis_vars, local_vars, call_vars,
                   centrality_vars>>

\* `self.data_dir = ...` (line 25 in __init__, line 46 in the setter): the
\* assignment to a name that is a property calls its setter, whose body is
\* the same assignment; the assignment to a plain attribute stores the value
\* and __init__ goes on to line 26 (`self.graph = None`)
AssignDataDir ==
    /\ visualizer.pc = "assign_data_dir"
    /\ visualizer.depth < MaxRecursionDepth
    /\ IF "data_dir" \in properties
       THEN visualizer' = [visualizer EXCEPT !.depth = @ + 1]
       ELSE visualizer' = [visualizer EXCEPT
                              !.fields = [data_dir |-> visualizer.data_dir],
                              !.pc = "assign_graph"]
    /\ UNCHANGED <<analyzer_vars, analysis_vars, local_vars, call_vars,
                   centrality_vars>>

\* the next call would exceed the depth the interpreter allows: RecursionError
\* is raised, no frame catches it (lines 25, 46, test_graphs.py line 11)
\* and the script ends without an object
RaiseRecursionError ==
    /\ visualizer.pc = "assign_data_dir"
    /\ visualizer.depth = MaxRecursionDepth
    /\ visualizer' = [visualizer EXCEPT !.pc = "ended", !.depth = 0,
                                        !.error = "RecursionError"]
    /\ UNCHANGED <<analyzer_vars, analysis_vars, local_vars, call_vars,
                   centrality_vars>>

\* the script builds no analyzer; the analyzer's variables stay as constructed
InitVisualizer == InitAgain

NextVisualizer ==
    \/ CallGraphVisualizer
    \/ AssignDataDir
    \/ RaiseRecursionError

SpecVisualizer == InitVisualizer /\ [][NextVisualizer]_vars

\* C26 as claimed: the construction GraphVisualizer(data_dir) ends with an
\* object (no exception) whose data_dir is the given directory and whose
\* graph is None.
C26_VisualizerConstructed ==
    visualizer.pc = "ended" =>
        /\ visualizer.error = "none"
        /\ visualizer.fields = [data_dir |-> visualizer.data_dir, graph |-> None]

====
